---- MODULE Spec2Model ----
(***************************************************************************)
(* A state-machine model of the sphere simulator: the LEDSphere shading   *)
(* state (material uniforms, clip configuration, effect presets), the     *)
(* SphereScene rotation and anchor mapping, and the fragment shader's      *)
(* clip test and texture-coordinate pipeline.                              *)
(*                                                                         *)
(* Numbers.  JavaScript and GLSL floats are modelled in fixed point: a     *)
(* real x is the integer x * Scale (one unit = 1e-4).  Angles are radians  *)
(* in the same unit.  Cell counts, colour-quantisation levels, the effect  *)
(* mode and pixel sizes are whole numbers and are kept as they are.        *)
(* The JavaScript value undefined is the integer Undefined.                *)
(***************************************************************************)
EXTENDS Integers, Sequences, FiniteSets, TLC

VARIABLES
    uniforms,           \* LEDSphere.material.uniforms (name |-> value)
    clipConfig,         \* LEDSphere.clipConfig
    rotationSpeed,      \* SphereScene.rotationSpeed
    textureRotation,    \* SphereScene.textureRotation
    isAnimatedContent,  \* SphereScene.isAnimatedContent
    imageConfig,        \* SphereScene.imageConfig
    container,          \* canvas.parentElement clientWidth / clientHeight
    sphere,             \* SphereScene.sphere position and scale
    console,            \* the last console.log / console.warn call
    frag,               \* the fragment last run through the shaders
    lastCall,           \* the handler that ran last, with its argument
                        \* or, of the frame loop, what checkProgress gave
    recorder,           \* the fields of the RecordingManager
    browser,            \* performance.now, the MediaRecorder events not yet
                        \* dispatched, and what the recorder handed out
    background,         \* BackgroundManager.currentBackground, and the
                        \* object URLs created and revoked
    contentLoader       \* the fields of the ContentLoader

vars == <<uniforms, clipConfig, rotationSpeed, textureRotation,
          isAnimatedContent, imageConfig, container, sphere, console, frag,
          lastCall, recorder, browser, background, contentLoader>>

sceneVars == <<rotationSpeed, textureRotation, isAnimatedContent>>
anchorVars == <<imageConfig, container, sphere>>
recordingVars == <<recorder, browser>>

----------------------------------------------------------------------------
(* Fixed-point arithmetic *)

Scale == 10 ^ 4

Undefined == -2147483647

\* NaN and Infinity of JavaScript numbers: 0 / 0, and x / 0 for x > 0.
NaN == Undefined + 1

Infinity == -(Undefined + 2)

Abs(x) == IF x < 0 THEN -x ELSE x

Max(a, b) == IF a >= b THEN a ELSE b

Min(a, b) == IF a <= b THEN a ELSE b

\* Division rounding to the nearest integer, for either sign of a (b > 0).
RDiv(a, b) == IF a >= 0 THEN (2 * a + b) \div (2 * b)
                        ELSE -((2 * (-a) + b) \div (2 * b))

RECURSIVE WideMulDiv(_, _, _)
\* <<q, r>> with x * y = q * c + r and 0 <= r < c, for 0 <= x < c and y >= 0,
\* by doubling: no intermediate value exceeds 3 * c.
WideMulDiv(x, y, c) ==
    IF y = 0 THEN <<0, 0>>
    ELSE LET h == WideMulDiv(x, y \div 2, c)
             r2 == 2 * h[2] + (IF y % 2 = 1 THEN x ELSE 0)
         IN  <<2 * h[1] + (r2 \div c), r2 % c>>

\* a * b / c rounded to the nearest integer (a, b >= 0, c > 0), also when
\* a * b does not fit the 32-bit integers of the checker.
MulDivNat(a, b, c) ==
    IF a <= 46340 /\ b <= 46340 THEN RDiv(a * b, c)
    ELSE LET w == WideMulDiv(a % c, b, c)
         IN  (a \div c) * b + w[1] + (IF 2 * w[2] >= c THEN 1 ELSE 0)

Sign(x) == IF x < 0 THEN -1 ELSE 1

\* a * b / c rounded to the nearest integer, for any signs (c # 0).
MulDiv(a, b, c) ==
    Sign(a) * Sign(b) * Sign(c) * MulDivNat(Abs(a), Abs(b), Abs(c))

\* Product of two fixed-point numbers of magnitude below 4.6 (unit vectors,
\* angles, ratios).
FMul(a, b) == RDiv(a * b, Scale)

\* Quotient of two fixed-point numbers (b > 0; a of magnitude below 20).
FDiv(a, b) == RDiv(a * Scale, b)

\* Product and quotient of fixed-point numbers of any size (pixel sizes).
PxMul(a, b) == MulDiv(a, b, Scale)

PxDiv(a, b) == MulDiv(a, Scale, b)

\* JavaScript arithmetic on pixel sizes, where a division by zero gives
\* Infinity or NaN and both spread through the later operations.
IsFinite(x) == x # NaN /\ Abs(x) # Infinity

JsDiv(a, b) ==
    IF a = NaN \/ b = NaN THEN NaN
    ELSE IF ~IsFinite(a)
         THEN (IF ~IsFinite(b) THEN NaN ELSE Sign(a) * Sign(b) * Infinity)
    ELSE IF ~IsFinite(b) THEN 0
    ELSE IF b = 0 THEN (IF a = 0 THEN NaN ELSE Sign(a) * Infinity)
    ELSE PxDiv(a, b)

JsMul(a, b) ==
    IF a = NaN \/ b = NaN THEN NaN
    ELSE IF ~IsFinite(a) \/ ~IsFinite(b)
         THEN (IF a = 0 \/ b = 0 THEN NaN ELSE Sign(a) * Sign(b) * Infinity)
    ELSE PxMul(a, b)

JsAdd(a, b) ==
    IF a = NaN \/ b = NaN THEN NaN
    ELSE IF ~IsFinite(a) THEN (IF ~IsFinite(b) /\ b # a THEN NaN ELSE a)
    ELSE IF ~IsFinite(b) THEN b
    ELSE a + b

JsNeg(a) == IF a = NaN THEN NaN ELSE -a

\* x * 2 and x / 2.
JsDouble(x) == IF IsFinite(x) THEN 2 * x ELSE x

JsHalf(x) == IF IsFinite(x) THEN x \div 2 ELSE x

Call(op, arg) == [op |-> op, arg |-> arg]

\* frag while no draw has just run: a handler other than render ran last.
NoFragment == [state |-> "none"]

NoDraw == frag' = NoFragment

----------------------------------------------------------------------------
(* Math.sin, Math.cos and the GLSL built-ins in fixed point *)

PI == 31416

TwoPI == 2 * PI

HalfPI == PI \div 2

QuarterPI == PI \div 4

\* sin y for |y| <= pi/4: the Taylor polynomial to degree 7.
SinKernel(y) ==
    LET y2 == FMul(y, y)
        y3 == FMul(y, y2)
        y5 == FMul(y3, y2)
        y7 == FMul(y5, y2)
    IN  y - RDiv(y3, 6) + RDiv(y5, 120) - RDiv(y7, 5040)

\* cos y for |y| <= pi/4: the Taylor polynomial to degree 8.
CosKernel(y) ==
    LET y2 == FMul(y, y)
        y4 == FMul(y2, y2)
        y6 == FMul(y4, y2)
        y8 == FMul(y4, y4)
    IN  Scale - RDiv(y2, 2) + RDiv(y4, 24) - RDiv(y6, 720) + RDiv(y8, 40320)

\* The angle x brought into [-pi, pi).
WrapAngle(x) == ((x + PI) % TwoPI) - PI

\* sin for an angle in [0, pi/2].
SinQuadrant(y) ==
    IF y <= QuarterPI THEN SinKernel(y) ELSE CosKernel(HalfPI - y)

\* sin for an angle in [-pi, pi).
SinWrapped(w) ==
    Sign(w) * SinQuadrant(IF Abs(w) <= HalfPI THEN Abs(w) ELSE PI - Abs(w))

Sin(x) == SinWrapped(WrapAngle(x))

Cos(x) == SinWrapped(WrapAngle(x + HalfPI))

RECURSIVE ISqrtBetween(_, _, _)
\* The largest r in lo .. hi with r * r <= n (lo * lo <= n).
ISqrtBetween(n, lo, hi) ==
    IF lo >= hi THEN lo
    ELSE LET mid == (lo + hi + 1) \div 2
         IN  IF mid * mid <= n THEN ISqrtBetween(n, mid, hi)
                               ELSE ISqrtBetween(n, lo, mid - 1)

\* The integer square root of n, 0 <= n < 2^30, rounded to nearest.
ISqrt(n) ==
    LET r == ISqrtBetween(n, 0, 32767)
    IN  IF n - r * r > r THEN r + 1 ELSE r

\* atan w for |w| <= tan(pi/8): the Taylor polynomial to degree 9.
AtanKernel(w) ==
    LET w2 == FMul(w, w)
        w3 == FMul(w, w2)
        w5 == FMul(w3, w2)
        w7 == FMul(w5, w2)
        w9 == FMul(w7, w2)
    IN  w - RDiv(w3, 3) + RDiv(w5, 5) - RDiv(w7, 7) + RDiv(w9, 9)

\* atan z for 0 <= z <= 1.
AtanUnit(z) ==
    IF z <= 4142 THEN AtanKernel(z)
    ELSE QuarterPI + AtanKernel(FDiv(z - Scale, z + Scale))

\* GLSL atan(y, x), in (-pi, pi]; 0 at the origin.
Atan2(y, x) ==
    LET a == Abs(y)
        b == Abs(x)
        base == IF a = 0 THEN 0
                ELSE IF a <= b THEN AtanUnit(FDiv(a, b))
                ELSE HalfPI - AtanUnit(FDiv(b, a))
        half == IF x >= 0 THEN base ELSE PI - base
    IN  IF y < 0 THEN -half ELSE half

Clamp(x, lo, hi) == Max(lo, Min(hi, x))

\* GLSL acos(c) for -1 <= c <= 1, in [0, pi].
Acos(c) == Atan2(ISqrt(Scale * Scale - c * c), c)

\* GLSL fract.
Fract(x) == x % Scale

(* Vectors are triples of fixed-point numbers. *)

Dot(a, b) == RDiv(a[1] * b[1] + a[2] * b[2] + a[3] * b[3], Scale)

Cross(a, b) ==
    <<FMul(a[2], b[3]) - FMul(a[3], b[2]),
      FMul(a[3], b[1]) - FMul(a[1], b[3]),
      FMul(a[1], b[2]) - FMul(a[2], b[1])>>

Length(a) == ISqrt(a[1] * a[1] + a[2] * a[2] + a[3] * a[3])

VScale(a, k) == <<FMul(a[1], k), FMul(a[2], k), FMul(a[3], k)>>

VSub(a, b) == <<a[1] - b[1], a[2] - b[2], a[3] - b[3]>>

VAdd(a, b) == <<a[1] + b[1], a[2] + b[2], a[3] + b[3]>>

\* a / |a|; the zero vector stays zero (THREE.Vector3.normalize).
Normalize(a) ==
    LET len == Length(a)
    IN  IF len = 0 THEN a
        ELSE <<FDiv(a[1], len), FDiv(a[2], len), FDiv(a[3], len)>>

----------------------------------------------------------------------------
(* LEDSphere: effect presets *)

PresetNames == {"none", "crt", "led", "lcd", "plasma", "neon", "holographic"}

Row(mode, x, y, gap, bright, glow, quant, scan, noise) ==
    [mode |-> mode, ledCountX |-> x, ledCountY |-> y, gapSize |-> gap,
     brightness |-> bright, glowIntensity |-> glow,
     colorQuantization |-> quant, scanlineIntensity |-> scan,
     noiseIntensity |-> noise]

effectPresets ==
    [n \in PresetNames |->
        CASE n = "none"        -> Row(0, 256, 128,    0, 10000,    0, 256,    0,   0)
          [] n = "crt"         -> Row(1, 120,  60, 1000, 14000, 5000,  16, 4000, 300)
          [] n = "led"         -> Row(2, 160,  80, 1500, 12000, 3000,  32,  500, 200)
          [] n = "lcd"         -> Row(3, 200, 100,  500, 10000, 1000,  64,    0, 100)
          [] n = "plasma"      -> Row(4, 100,  50,  800, 13000, 7000,  48,    0, 200)
          [] n = "neon"        -> Row(5, 160,  80,  800, 15000, 9000,  32,    0, 200)
          [] n = "holographic" -> Row(6, 150,  75,  800, 12000, 4000,  64, 1000, 200)]

\* Property names every JavaScript object literal inherits from
\* Object.prototype: effectPresets[name] finds them although the literal does
\* not list them.
ObjectPrototypeNames == {"constructor", "toString", "__proto__"}

\* Names given to setEffect: the presets, inherited names and plain unknowns.
EffectNames == PresetNames \cup ObjectPrototypeNames \cup {"foo", ""}

\* LEDSphere.effectPresets[effectName]: an own row, an inherited member (an
\* object that is truthy and has none of the row's fields), or undefined.
PresetLookup(effectName) ==
    IF effectName \in PresetNames
        THEN [kind |-> "row", row |-> effectPresets[effectName]]
    ELSE IF effectName \in ObjectPrototypeNames
        THEN [kind |-> "inherited"]
    ELSE [kind |-> "undefined"]

\* preset.<field> for a looked-up preset.
PresetField(preset, f) ==
    IF preset.kind = "row" THEN preset.row[f] ELSE Undefined

\* A faulty setEffect that writes the two cell counts crossed over.
EffectUniformsCrossed(preset) ==
    [uEffectMode |-> PresetField(preset, "mode"),
     uLedCountX |-> PresetField(preset, "ledCountY"),
     uLedCountY |-> PresetField(preset, "ledCountX"),
     uGapSize |-> PresetField(preset, "gapSize"),
     uBrightness |-> PresetField(preset, "brightness"),
     uGlowIntensity |-> PresetField(preset, "glowIntensity"),
     uColorQuantization |-> PresetField(preset, "colorQuantization"),
     uScanlineIntensity |-> PresetField(preset, "scanlineIntensity"),
     uNoiseIntensity |-> PresetField(preset, "noiseIntensity")]

\* The uniforms setEffect assigns from a looked-up preset.
EffectUniforms(preset) ==
    [uEffectMode |-> PresetField(preset, "mode"),
     uLedCountX |-> PresetField(preset, "ledCountX"),
     uLedCountY |-> PresetField(preset, "ledCountY"),
     uGapSize |-> PresetField(preset, "gapSize"),
     uBrightness |-> PresetField(preset, "brightness"),
     uGlowIntensity |-> PresetField(preset, "glowIntensity"),
     uColorQuantization |-> PresetField(preset, "colorQuantization"),
     uScanlineIntensity |-> PresetField(preset, "scanlineIntensity"),
     uNoiseIntensity |-> PresetField(preset, "noiseIntensity")]

EffectUniformNames ==
    {"uEffectMode", "uLedCountX", "uLedCountY", "uGapSize", "uBrightness",
     "uGlowIntensity", "uColorQuantization", "uScanlineIntensity",
     "uNoiseIntensity"}

\* f overwritten by g on g's domain.
Overwrite(f, g) ==
    [k \in DOMAIN f |-> IF k \in DOMAIN g THEN g[k] ELSE f[k]]

setEffect(effectName) ==
    LET preset == PresetLookup(effectName) IN
    /\ IF preset.kind = "undefined"
          THEN /\ console' = [level |-> "warn", text |-> effectName]
               /\ UNCHANGED uniforms
          ELSE /\ uniforms' = Overwrite(uniforms, EffectUniforms(preset))
               /\ console' = [level |-> "log", text |-> effectName]
    /\ lastCall' = Call("setEffect", effectName)
    /\ UNCHANGED <<clipConfig, sceneVars, anchorVars>>
    /\ NoDraw
    /\ UNCHANGED <<recordingVars, background, contentLoader>>

effects == <<"none", "crt", "led", "lcd", "plasma", "neon", "holographic">>

\* LEDSphere.getCurrentEffect on a uniforms record.
getCurrentEffect(un) ==
    LET mode == un.uEffectMode IN
    IF mode \in 0 .. (Len(effects) - 1) THEN effects[mode + 1] ELSE "unknown"

LedCountInputs == {<<64, 32>>}
GapInputs == {-5000, 5000, 15000}
BrightnessInputs == {20000}
GlowInputs == {0}

setLedCount(x, y) ==
    /\ uniforms' = [uniforms EXCEPT !.uLedCountX = x, !.uLedCountY = y]
    /\ lastCall' = Call("setLedCount", <<x, y>>)
    /\ UNCHANGED <<clipConfig, sceneVars, anchorVars, console>>
    /\ NoDraw
    /\ UNCHANGED <<recordingVars, background, contentLoader>>

setGapSize(size) ==
    /\ uniforms' = [uniforms EXCEPT !.uGapSize = Max(0, Min(Scale, size))]
    /\ lastCall' = Call("setGapSize", size)
    /\ UNCHANGED <<clipConfig, sceneVars, anchorVars, console>>
    /\ NoDraw
    /\ UNCHANGED <<recordingVars, background, contentLoader>>

setBrightness(brightness) ==
    /\ uniforms' = [uniforms EXCEPT !.uBrightness = brightness]
    /\ lastCall' = Call("setBrightness", brightness)
    /\ UNCHANGED <<clipConfig, sceneVars, anchorVars, console>>
    /\ NoDraw
    /\ UNCHANGED <<recordingVars, background, contentLoader>>

setGlowIntensity(intensity) ==
    /\ uniforms' = [uniforms EXCEPT !.uGlowIntensity = intensity]
    /\ lastCall' = Call("setGlowIntensity", intensity)
    /\ UNCHANGED <<clipConfig, sceneVars, anchorVars, console>>
    /\ NoDraw
    /\ UNCHANGED <<recordingVars, background, contentLoader>>

----------------------------------------------------------------------------
(* LEDSphere: clipping plane *)

\* The up vector turned about the X axis by tiltX, then about the Z axis by
\* tiltZ, and normalized.
ClipPlaneNormal(tiltX, tiltZ) ==
    LET up == <<0, Scale, 0>>
        cosX == Cos(tiltX)
        sinX == Sin(tiltX)
        y1 == FMul(up[2], cosX) - FMul(up[3], sinX)
        z1 == FMul(up[2], sinX) + FMul(up[3], cosX)
        cosZ == Cos(tiltZ)
        sinZ == Sin(tiltZ)
        x2 == FMul(up[1], cosZ) - FMul(y1, sinZ)
        y2 == FMul(up[1], sinZ) + FMul(y1, cosZ)
    IN  Normalize(<<x2, y2, z1>>)

\* A faulty plane offset, clamped like the offset of the area computation.
ClipPlaneOffsetClamped(offset) == Max(-Scale, Min(Scale, offset))

\* The value given to uClipPlaneOffset.
ClipPlaneOffset(offset) == offset

\* A faulty axis tilt that is not negated.
RotationTiltZSame(tiltZ) == tiltZ

\* The value given to uRotationTiltZ.
RotationTiltZ(tiltZ) == -tiltZ

\* A faulty V scale that leaves the offset unclamped.
TextureVScaleUnclamped(enabled, offset) ==
    IF enabled THEN (Scale - offset) \div 2 ELSE Scale

\* The value given to uTextureVScale.
TextureVScale(enabled, offset) ==
    IF enabled
    THEN LET clampedOffset == Max(-Scale, Min(Scale, offset))
             visibleVMax == (Scale - clampedOffset) \div 2
         IN  visibleVMax
    ELSE Scale

\* LEDSphere.updateClipPlane: the uniforms it writes, from the configuration.
ClipPlaneUniforms(cfg) ==
    LET tiltX == cfg.tiltX
        tiltZ == cfg.tiltZ
        offset == cfg.offset
        enabled == cfg.enabled
    IN  [uClipPlaneNormal |-> ClipPlaneNormal(tiltX, tiltZ),
         uClipPlaneOffset |-> ClipPlaneOffset(offset),
         uClipEnabled |-> IF enabled THEN Scale ELSE 0,
         uRotationTiltZ |-> RotationTiltZ(tiltZ),
         uTextureVScale |-> TextureVScale(enabled, offset)]

updateClipPlane(un, cfg) == Overwrite(un, ClipPlaneUniforms(cfg))

\* A clip setter: one field of clipConfig is assigned, then updateClipPlane.
SetClipField(field, value) ==
    /\ clipConfig' = [clipConfig EXCEPT ![field] = value]
    /\ uniforms' = updateClipPlane(uniforms, clipConfig')
    /\ UNCHANGED <<sceneVars, anchorVars, console>>
    /\ NoDraw
    /\ UNCHANGED <<recordingVars, background, contentLoader>>

setClipEnabled(enabled) ==
    /\ SetClipField("enabled", enabled)
    /\ lastCall' = Call("setClipEnabled", enabled)

setClipTiltX(angle) ==
    /\ SetClipField("tiltX", angle)
    /\ lastCall' = Call("setClipTiltX", angle)

setClipTiltZ(angle) ==
    /\ SetClipField("tiltZ", angle)
    /\ lastCall' = Call("setClipTiltZ", angle)

setClipOffset(offset) ==
    /\ SetClipField("offset", offset)
    /\ lastCall' = Call("setClipOffset", offset)

----------------------------------------------------------------------------
(* LEDSphere: texture transform *)

TextureScaleInputs == {500, 20000, 60000}
TextureUOffsetInputs == {0, 2500}
UserTextureVOffsetInputs == {0, 1000}

\* The scale is kept within 0.1 and 5.
setTextureScale(scale) ==
    /\ uniforms' = [uniforms EXCEPT
                      !.uTextureScale = Max(Scale \div 10, Min(5 * Scale, scale))]
    /\ lastCall' = Call("setTextureScale", scale)
    /\ UNCHANGED <<clipConfig, sceneVars, anchorVars, console>>
    /\ NoDraw
    /\ UNCHANGED <<recordingVars, background, contentLoader>>

setTextureUOffset(offset) ==
    /\ uniforms' = [uniforms EXCEPT !.uTextureUOffset = offset]
    /\ lastCall' = Call("setTextureUOffset", offset)
    /\ UNCHANGED <<clipConfig, sceneVars, anchorVars, console>>
    /\ NoDraw
    /\ UNCHANGED <<recordingVars, background, contentLoader>>

setUserTextureVOffset(offset) ==
    /\ uniforms' = [uniforms EXCEPT !.uUserTextureVOffset = offset]
    /\ lastCall' = Call("setUserTextureVOffset", offset)
    /\ UNCHANGED <<clipConfig, sceneVars, anchorVars, console>>
    /\ NoDraw
    /\ UNCHANGED <<recordingVars, background, contentLoader>>

----------------------------------------------------------------------------
(* SphereScene: anchor mapping *)

imageWidth == 1500

imageHeight == 1000

\* Pixel sizes as fixed-point numbers.
Px(n) == n * Scale

\* A faulty aspect: that of a square image.
imageAspectSquare == Px(1)

imageAspect == PxDiv(Px(imageWidth), Px(imageHeight))

frustumSize == 2

\* A faulty letterbox that covers the container instead of fitting into it.
calculateImageDisplayBoundsCover(size) ==
    LET windowWidth == Px(size[1])
        windowHeight == Px(size[2])
        windowAspect == JsDiv(windowWidth, windowHeight)
    IN  IF windowAspect < imageAspect
        THEN LET displayedWidth == JsMul(windowHeight, imageAspect)
             IN  [displayedWidth |-> displayedWidth,
                  displayedHeight |-> windowHeight,
                  offsetX |-> JsHalf(JsAdd(windowWidth, JsNeg(displayedWidth))),
                  offsetY |-> 0,
                  windowWidth |-> windowWidth,
                  windowHeight |-> windowHeight]
        ELSE LET displayedHeight == JsDiv(windowWidth, imageAspect)
             IN  [displayedWidth |-> windowWidth,
                  displayedHeight |-> displayedHeight,
                  offsetX |-> 0,
                  offsetY |-> JsHalf(JsAdd(windowHeight, JsNeg(displayedHeight))),
                  windowWidth |-> windowWidth,
                  windowHeight |-> windowHeight]

\* SphereScene.calculateImageDisplayBounds for a container <<width, height>>.
calculateImageDisplayBounds(size) ==
    LET windowWidth == Px(size[1])
        windowHeight == Px(size[2])
        windowAspect == JsDiv(windowWidth, windowHeight)
    IN  IF windowAspect > imageAspect
        THEN LET displayedWidth == JsMul(windowHeight, imageAspect)
             IN  [displayedWidth |-> displayedWidth,
                  displayedHeight |-> windowHeight,
                  offsetX |-> JsHalf(JsAdd(windowWidth, JsNeg(displayedWidth))),
                  offsetY |-> 0,
                  windowWidth |-> windowWidth,
                  windowHeight |-> windowHeight]
        ELSE LET displayedHeight == JsDiv(windowWidth, imageAspect)
             IN  [displayedWidth |-> windowWidth,
                  displayedHeight |-> displayedHeight,
                  offsetX |-> 0,
                  offsetY |-> JsHalf(JsAdd(windowHeight, JsNeg(displayedHeight))),
                  windowWidth |-> windowWidth,
                  windowHeight |-> windowHeight]

\* SphereScene.updateFromImageCoords: the sphere's position and scale.
updateFromImageCoords(config, size) ==
    LET bounds == calculateImageDisplayBounds(size)
        screenX == JsAdd(bounds.offsetX,
                         JsMul(PxDiv(Px(config.sphereCenter[1]), Px(imageWidth)),
                               bounds.displayedWidth))
        screenY == JsAdd(bounds.offsetY,
                         JsMul(PxDiv(Px(config.sphereCenter[2]), Px(imageHeight)),
                               bounds.displayedHeight))
        ndcX == JsAdd(JsDouble(JsDiv(screenX, bounds.windowWidth)), -Scale)
        ndcY == JsNeg(JsAdd(JsDouble(JsDiv(screenY, bounds.windowHeight)), -Scale))
        aspect == JsDiv(bounds.windowWidth, bounds.windowHeight)
        worldX == JsMul(ndcX, JsHalf(JsMul(Px(frustumSize), aspect)))
        worldY == JsMul(ndcY, Px(frustumSize) \div 2)
        sphereRadiusPixels == JsMul(config.sphereRadiusRatio, bounds.displayedWidth)
        pixelsPerWorldUnit ==
            JsDiv(bounds.windowWidth, JsMul(Px(frustumSize), aspect))
        worldRadius == JsDiv(sphereRadiusPixels, pixelsPerWorldUnit)
    IN  [position |-> <<worldX, worldY, 0>>, scale |-> worldRadius]

setSphereCenter(x, y) ==
    /\ imageConfig' = [imageConfig EXCEPT !.sphereCenter = <<x, y>>]
    /\ sphere' = updateFromImageCoords(imageConfig', container)
    /\ lastCall' = Call("setSphereCenter", <<x, y>>)
    /\ UNCHANGED <<uniforms, clipConfig, sceneVars, container, console>>
    /\ NoDraw
    /\ UNCHANGED <<recordingVars, background, contentLoader>>

setSphereRadiusRatio(ratio) ==
    /\ imageConfig' = [imageConfig EXCEPT !.sphereRadiusRatio = ratio]
    /\ sphere' = updateFromImageCoords(imageConfig', container)
    /\ lastCall' = Call("setSphereRadiusRatio", ratio)
    /\ UNCHANGED <<uniforms, clipConfig, sceneVars, container, console>>
    /\ NoDraw
    /\ UNCHANGED <<recordingVars, background, contentLoader>>

\* A faulty resize handler that leaves the sphere where it was.
onResizeStale(size) ==
    /\ container' = size
    /\ lastCall' = Call("onResize", size)
    /\ UNCHANGED <<uniforms, clipConfig, sceneVars, imageConfig, sphere, console>>
    /\ NoDraw
    /\ UNCHANGED <<recordingVars, background, contentLoader>>

\* The window is resized to <<width, height>> and the resize handler runs.
onResize(size) ==
    /\ container' = size
    /\ sphere' = updateFromImageCoords(imageConfig, container')
    /\ lastCall' = Call("onResize", size)
    /\ UNCHANGED <<uniforms, clipConfig, sceneVars, imageConfig, console>>
    /\ NoDraw
    /\ UNCHANGED <<recordingVars, background, contentLoader>>

----------------------------------------------------------------------------
(* Shaders *)

\* led.vert: the varyings of a vertex <<uv, position>> of the sphere mesh.
VertexMain(v, sph) ==
    [vUv |-> v.uv,
     vPosition |-> v.position,
     vWorldPosition |-> VAdd(VScale(v.position, sph.scale), sph.position)]

uvToSphere(uv) ==
    LET theta == FMul(uv[1], TwoPI)
        phi == FMul(uv[2], PI)
    IN  <<FMul(Sin(phi), Cos(theta)), Cos(phi), FMul(Sin(phi), Sin(theta))>>

\* The threshold 0.001 of the two degeneracy tests in getTiltedUV.
Epsilon == 10

getTiltedUV(p, axis) ==
    LET cosAngle == Dot(p, axis)
        tiltedV == FDiv(Acos(Clamp(cosAngle, -Scale, Scale)), PI)
        worldUp == <<0, Scale, 0>>
        projectedUp == VSub(worldUp, VScale(axis, Dot(worldUp, axis)))
        projLen == Length(projectedUp)
        tangent1 == IF projLen < Epsilon
                       THEN Normalize(Cross(axis, <<Scale, 0, 0>>))
                       ELSE Normalize(Cross(axis, projectedUp))
        tangent2 == Cross(axis, tangent1)
        projected == VSub(p, VScale(axis, cosAngle))
        len == Length(projected)
    IN  IF len < Epsilon THEN <<0, tiltedV>>
        ELSE LET unit == <<FDiv(projected[1], len), FDiv(projected[2], len),
                           FDiv(projected[3], len)>>
                 u1 == Dot(unit, tangent1)
                 u2 == Dot(unit, tangent2)
                 tiltedU == -FDiv(Atan2(u2, u1), TwoPI) + Scale \div 2
             IN  <<tiltedU, tiltedV>>

rotateTiltedUV(uv, axis, angle) ==
    LET p == uvToSphere(uv)
        tiltedUV == getTiltedUV(p, axis)
    IN  <<Fract(tiltedUV[1] + FDiv(angle, TwoPI)), tiltedUV[2]>>

\* The style each effect function of the shader implements.
EffectStyle(branch) ==
    CASE branch = "effectNone"        -> "none"
      [] branch = "effectCRT"         -> "crt"
      [] branch = "effectLED"         -> "led"
      [] branch = "effectLCD"         -> "lcd"
      [] branch = "effectPlasma"      -> "plasma"
      [] branch = "effectNeon"        -> "neon"
      [] branch = "effectHolographic" -> "holographic"

\* A faulty dispatch that numbers the effects as the headings above the
\* effect functions do, from CRT as 0 to None as 6.
EffectBranchAsHeadings(mode) ==
    CASE mode = 0 -> "effectCRT"
      [] mode = 1 -> "effectLED"
      [] mode = 2 -> "effectLCD"
      [] mode = 3 -> "effectPlasma"
      [] mode = 4 -> "effectNeon"
      [] mode = 5 -> "effectHolographic"
      [] OTHER    -> "effectNone"

\* The branch of the effect dispatch in main.
EffectBranch(mode) ==
    CASE mode = 0 -> "effectNone"
      [] mode = 1 -> "effectCRT"
      [] mode = 2 -> "effectLED"
      [] mode = 3 -> "effectLCD"
      [] mode = 4 -> "effectPlasma"
      [] mode = 5 -> "effectNeon"
      [] OTHER    -> "effectHolographic"

\* The clip test of main: the plane distance, and whether it discards.
ClipDist(vary, un) == Dot(vary.vPosition, un.uClipPlaneNormal) - un.uClipPlaneOffset

\* A faulty clip test that ignores the switch.
ClipDiscardsAlways(vary, un) == ClipDist(vary, un) < 0

ClipDiscards(vary, un) ==
    un.uClipEnabled > Scale \div 2 /\ ClipDist(vary, un) < 0

\* A faulty V scaling that also scales animated content.
ScaledUVAlways(rotatedUV, un) ==
    <<rotatedUV[1], FMul(rotatedUV[2], un.uTextureVScale) + un.uTextureVOffset>>

\* The V scaling of main.
ScaledUV(rotatedUV, un) ==
    IF un.uIsAnimated > Scale \div 2
        THEN rotatedUV
        ELSE <<rotatedUV[1],
               FMul(rotatedUV[2], un.uTextureVScale) + un.uTextureVOffset>>

\* led.frag main on the varyings of one fragment.
FragmentMain(vary, un) ==
    IF ClipDiscards(vary, un)
    THEN [state |-> "discarded", vary |-> vary]
    ELSE LET rotationAxis == <<Sin(un.uRotationTiltZ), Cos(un.uRotationTiltZ), 0>>
             rotatedUV == rotateTiltedUV(vary.vUv, rotationAxis, un.uTextureRotation)
             scaledUV == ScaledUV(rotatedUV, un)
         IN  [state |-> "shaded", vary |-> vary,
              rotationAxis |-> rotationAxis,
              rotatedUV |-> rotatedUV,
              scaledUV |-> scaledUV,
              effect |-> EffectBranch(un.uEffectMode)]

\* Sample points of SphereGeometry(1, 128, 64): position
\* (-cos(2 pi u) sin(pi v), cos(pi v), sin(2 pi u) sin(pi v)) with uv (u, 1 - v).
Fragments ==
    {[uv |-> <<2500, 5000>>, position |-> <<0, 0, 10000>>],
     [uv |-> <<2500, 7048>>, position |-> <<0, 6000, 8000>>],
     [uv |-> <<2500, 2952>>, position |-> <<0, -6000, 8000>>],
     [uv |-> <<3524, 5000>>, position |-> <<6000, 0, 8000>>],
     [uv |-> <<1476, 5000>>, position |-> <<-6000, 0, 8000>>],
     [uv |-> <<2500, 0>>, position |-> <<0, -10000, 0>>]}

----------------------------------------------------------------------------
(* SphereScene: content and the render tick *)

Textures == {"tex1"}

\* Bounds of the model: render ticks (as base steps of the angle) where the
\* rotation is studied and where the shaders are.
MaxTicks == 4
MaxShadeTicks == 1

BaseSpeed == 50

setContent(texture, isAnimated) ==
    /\ isAnimatedContent' = isAnimated
    /\ uniforms' = [uniforms EXCEPT !.uIsAnimated = IF isAnimated THEN Scale ELSE 0,
                                    !.uTexture = texture]
    /\ lastCall' = Call("setContent", <<texture, isAnimated>>)
    /\ UNCHANGED <<clipConfig, rotationSpeed, textureRotation, anchorVars,
                   console>>
    /\ NoDraw
    /\ UNCHANGED <<recordingVars, background, contentLoader>>

\* this.sphereScene.rotationSpeed = ... (the rotation controls of the app).
setRotationSpeed(speed) ==
    /\ rotationSpeed' = speed
    /\ lastCall' = Call("setRotationSpeed", speed)
    /\ UNCHANGED <<uniforms, clipConfig, textureRotation, isAnimatedContent,
                   anchorVars, console>>
    /\ NoDraw
    /\ UNCHANGED <<recordingVars, background, contentLoader>>

\* The uniforms after the rotation step of render, at clock time t.
RenderUniforms(un, rotation, animated, t) ==
    [un EXCEPT !.uTextureRotation = IF animated THEN @ ELSE rotation,
               !.uTime = t]

\* A faulty rotation step that also turns animated content.
RenderRotationAlways(rotation, speed, animated) == rotation + speed

\* A faulty rotation step that turns the wrong way round.
RenderRotationReversed(rotation, speed, animated) ==
    IF animated THEN rotation ELSE rotation - speed

\* The angle after the rotation step of render.
RenderRotation(rotation, speed, animated) ==
    IF animated THEN rotation ELSE rotation + speed

\* SphereScene.render: the rotation step, the clock, then the draw, of which
\* the fragment of vertex v is followed.  The clock never runs backwards.
\* The model stops rendering when the angle would leave maxTicks base steps.
render(v, t, maxTicks) ==
    /\ t >= uniforms.uTime
    /\ Abs(RenderRotation(textureRotation, rotationSpeed, isAnimatedContent))
          <= maxTicks * BaseSpeed
    /\ textureRotation' =
          RenderRotation(textureRotation, rotationSpeed, isAnimatedContent)
    /\ uniforms' = RenderUniforms(uniforms, textureRotation', isAnimatedContent, t)
    /\ frag' = FragmentMain(VertexMain(v, sphere), uniforms')
    /\ lastCall' = Call("render", v)
    /\ UNCHANGED <<clipConfig, rotationSpeed, isAnimatedContent, anchorVars,
                   console, recordingVars, background, contentLoader>>

----------------------------------------------------------------------------
(* RecordingManager: the recorder, its MediaRecorder, and the frame loop *)

\* Bounds: the angle is followed for MaxQuarterTurns quarter turns either
\* way, the clock for MaxNow milliseconds, and a recording gathers up to
\* MaxChunks timeslices; MaxRecordings recordings are started.
MaxQuarterTurns == 5
MaxNow == 1
MaxChunks == 1
MaxRecordings == 1

\* Rotation speeds of the frames that are followed: a quarter turn a frame,
\* or none.
RecordSpeeds == {0, HalfPI}

\* Durations handed to startRecording, in milliseconds.
Durations == {-1, 0, 1}

\* Sizes of the data of a dataavailable event.
DataSizes == {0, 1}

\* The reading of the scene's clock in the frames of the frame loop.
RecordTimes == {1}

\* Bound: startRecording is called MaxStarts times where calls that overlap
\* are followed.
MaxStarts == 2

\* Where the try block of startRecording throws: nowhere, at captureStream
\* or the MediaRecorder constructor, or at mediaRecorder.start.
Failures == {"none", "MediaRecorder", "start"}

\* The fields the constructor sets; mediaRecorder holds the state of the
\* MediaRecorder it refers to, chunks the number of chunks gathered,
\* animationFrameId whether it holds the id of a requested animation frame,
\* and scheduled the number of compositeLoop callbacks that were requested
\* and have neither run nor been cancelled.
InitialRecorder ==
    [mediaRecorder |-> "null", chunks |-> 0, isRecording |-> FALSE,
     startRotation |-> 0, isTimeBasedRecording |-> FALSE,
     recordingDuration |-> 0, recordingStartTime |-> 0,
     animationFrameId |-> FALSE, scheduled |-> 0]

\* The surroundings of the recorder: performance.now(), the startRecording
\* calls suspended at their await, the MediaRecorder events queued and not
\* yet dispatched, whether the animation frames compositeLoop requested are
\* due in the running display refresh, the recordings started, whether the
\* last recording started was cancelled while it ran, the downloads made,
\* the onComplete calls, the last onError reason, the MediaRecorders that
\* record and that this.mediaRecorder no longer refers to, and whether
\* stopRecording or cancelRecording was called while a startRecording call
\* was suspended, with no startRecording call since.
InitialBrowser ==
    [now |-> 0, loading |-> <<>>, events |-> <<>>, compositeDue |-> FALSE,
     started |-> 0, cancelled |-> FALSE, downloads |-> 0, completed |-> 0,
     error |-> "none", orphans |-> 0, stopRequested |-> FALSE]

\* A faulty canRecord that looks at the rotation speed before the content.
canRecordSpeedFirst(supported, animated, speed) ==
    IF ~supported THEN [ok |-> FALSE, reason |-> "not_supported"]
    ELSE IF Abs(speed) < 1 THEN [ok |-> FALSE, reason |-> "rotation_stopped"]
    ELSE IF animated THEN [ok |-> TRUE, mode |-> "time_based"]
    ELSE [ok |-> TRUE, mode |-> "rotation_based"]

\* RecordingManager.canRecord; supported tells whether window.MediaRecorder
\* exists, and the threshold 0.0001 is one unit of the fixed point.
canRecord(supported, animated, speed) ==
    IF ~supported THEN [ok |-> FALSE, reason |-> "not_supported"]
    ELSE IF animated THEN [ok |-> TRUE, mode |-> "time_based"]
    ELSE IF Abs(speed) < 1 THEN [ok |-> FALSE, reason |-> "rotation_stopped"]
    ELSE [ok |-> TRUE, mode |-> "rotation_based"]

\* canRecord called on its own, in a browser with or without MediaRecorder.
canRecordCalled(supported) ==
    /\ lastCall' = Call("canRecord",
                        [supported |-> supported,
                         result |-> canRecord(supported, isAnimatedContent,
                                              rotationSpeed)])
    /\ UNCHANGED <<uniforms, clipConfig, sceneVars, anchorVars, console,
                   recordingVars, background, contentLoader>>
    /\ NoDraw

\* The angle after the rotation steps of n renders.
RECURSIVE RenderRotations(_, _, _, _)
RenderRotations(rotation, speed, animated, n) ==
    IF n = 0 THEN rotation
    ELSE RenderRotations(RenderRotation(rotation, speed, animated),
                         speed, animated, n - 1)

\* n calls of SphereScene.render within one task, at clock time t: the
\* rotation steps and the uniforms, with no fragment of the draw followed.
renders(n, t) ==
    /\ t >= uniforms.uTime
    /\ rotationSpeed \in RecordSpeeds
    /\ Abs(RenderRotations(textureRotation, rotationSpeed, isAnimatedContent, n))
          <= MaxQuarterTurns * HalfPI
    /\ textureRotation' =
          RenderRotations(textureRotation, rotationSpeed, isAnimatedContent, n)
    /\ uniforms' = RenderUniforms(uniforms, textureRotation', isAnimatedContent, t)
    /\ UNCHANGED <<clipConfig, rotationSpeed, isAnimatedContent, anchorVars,
                   console>>
    /\ NoDraw

\* What every recorder operation that draws nothing leaves alone.
NoFrame ==
    /\ UNCHANGED <<uniforms, clipConfig, sceneVars, anchorVars>>
    /\ NoDraw

\* MediaRecorder.stop(): the last data, of the given size, then the stop
\* event are queued.
MediaStop(events, size) ==
    events \o <<[type |-> "dataavailable", size |-> size],
                [type |-> "stop", size |-> 0]>>

\* RecordingManager.cleanup: the recorder's fields after it; the animation
\* frame whose id is held is cancelled.
cleanup(rec) ==
    [rec EXCEPT !.isRecording = FALSE,
                !.scheduled = IF rec.animationFrameId THEN Max(@ - 1, 0) ELSE @,
                !.animationFrameId = FALSE]

\* RecordingManager.stopRecording: the recorder's fields and the queued
\* events after it.
StopRecording(rec, events, size) ==
    IF ~rec.isRecording \/ rec.mediaRecorder = "null" THEN <<rec, events>>
    ELSE IF rec.mediaRecorder # "inactive"
         THEN <<[cleanup(rec) EXCEPT !.mediaRecorder = "inactive"],
                MediaStop(events, size)>>
         ELSE <<cleanup(rec), events>>

\* elapsed / duration of checkProgress, under Math.min(..., 1).
TimeProgress(elapsed, duration) ==
    IF duration = 0
    THEN (IF elapsed = 0 THEN NaN ELSE Scale)
    ELSE Min(Sign(duration) * RDiv(elapsed * Scale, Abs(duration)), Scale)

\* rotationDelta / (Math.PI * 2) of checkProgress, under Math.min(..., 1).
RotationProgress(delta) ==
    IF delta >= TwoPI THEN Scale ELSE RDiv(delta * Scale, TwoPI)

\* RecordingManager.checkProgress: <<the recorder's fields, the queued
\* events, the value returned and passed to onProgress>>; with no recording
\* onProgress is not called.
CheckProgress(rec, events, rotation, now, size) ==
    IF ~rec.isRecording THEN <<rec, events, -Scale>>
    ELSE IF rec.isTimeBasedRecording
    THEN LET elapsed == now - rec.recordingStartTime
             stopped == IF elapsed >= rec.recordingDuration
                        THEN StopRecording(rec, events, size)
                        ELSE <<rec, events>>
         IN  <<stopped[1], stopped[2],
               TimeProgress(elapsed, rec.recordingDuration)>>
    ELSE LET rotationDelta == Abs(rotation - rec.startRotation)
             stopped == IF rotationDelta >= TwoPI
                        THEN StopRecording(rec, events, size)
                        ELSE <<rec, events>>
         IN  <<stopped[1], stopped[2], RotationProgress(rotationDelta)>>

\* No checkProgress call was made.
NoPoll == [returned |-> Undefined, onProgress |-> Undefined]

\* The recorder and its surroundings after a checkProgress call, with the
\* value it returned and the value it passed to onProgress.
Polled(rotation, size) ==
    LET c == CheckProgress(recorder, browser.events, rotation, browser.now, size)
    IN  [recorder |-> c[1],
         browser |-> [browser EXCEPT !.events = c[2]],
         poll |-> [returned |-> c[3],
                   onProgress |-> IF recorder.isRecording THEN c[3]
                                  ELSE Undefined]]

\* RecordingManager.startRecording up to its await: canRecord refuses, with
\* the reason passed to onError and false returned, or decides the mode, and
\* the call waits for the background image.  maxStarts calls are followed.
startRecording(duration, supported, maxStarts) ==
    /\ browser.started < maxStarts
    /\ Abs(textureRotation) <= (MaxQuarterTurns - 5) * HalfPI
    /\ LET check == canRecord(supported, isAnimatedContent, rotationSpeed)
       IN  /\ browser' =
                 IF ~check.ok
                 THEN [browser EXCEPT !.error = check.reason,
                                      !.stopRequested = FALSE]
                 ELSE [browser EXCEPT
                          !.loading = Append(@, [mode |-> check.mode,
                                                 duration |-> duration]),
                          !.started = @ + 1,
                          !.stopRequested = FALSE]
           /\ lastCall' =
                 Call("startRecording",
                      [duration |-> duration, supported |-> supported,
                       resolved |-> IF check.ok THEN "pending" ELSE "false",
                       onError |-> IF check.ok THEN <<>> ELSE <<check.reason>>])
    /\ UNCHANGED <<recorder, console, background, contentLoader>>
    /\ NoFrame

\* The fields startRecording sets between its await and its try block.
ResetState(rec, load, rotation, now) ==
    IF load.mode = "time_based"
    THEN [rec EXCEPT !.chunks = 0,
                     !.isTimeBasedRecording = TRUE,
                     !.recordingDuration = load.duration,
                     !.recordingStartTime = now]
    ELSE [rec EXCEPT !.chunks = 0,
                     !.isTimeBasedRecording = FALSE,
                     !.startRotation = rotation]

\* A faulty catch block that leaves cleanup out.
TryStartNoCleanup(rec, fail) ==
    IF fail = "MediaRecorder" THEN [rec EXCEPT !.isRecording = TRUE]
    ELSE IF fail = "start"
    THEN [rec EXCEPT !.isRecording = TRUE, !.mediaRecorder = "inactive"]
    ELSE [rec EXCEPT !.isRecording = TRUE,
                     !.mediaRecorder = "recording",
                     !.animationFrameId = TRUE,
                     !.scheduled = @ + 1]

\* The try block of startRecording and its catch: the recorder's fields
\* after them.  A MediaRecorder that was constructed replaces the one
\* referred to; compositeLoop requests an animation frame.
TryStart(rec, fail) ==
    IF fail = "MediaRecorder" THEN cleanup([rec EXCEPT !.isRecording = TRUE])
    ELSE IF fail = "start"
    THEN cleanup([rec EXCEPT !.isRecording = TRUE,
                             !.mediaRecorder = "inactive"])
    ELSE [rec EXCEPT !.isRecording = TRUE,
                     !.mediaRecorder = "recording",
                     !.animationFrameId = TRUE,
                     !.scheduled = @ + 1]

\* RecordingManager.startRecording after its await: the fields of the mode
\* decided before it, the first frame by compositeFrame, the MediaRecorder,
\* then compositeLoop with the second frame; or the catch block, with
\* 'start_failed' passed to onError and false returned.  A recording is
\* followed when it starts at an angle that leaves room for a turn and the
\* frames it takes to notice it, five quarter turns in all.
startRecordingLoaded(t, fail) ==
    /\ browser.loading # <<>>
    /\ Abs(textureRotation) <= (MaxQuarterTurns - 5) * HalfPI
    /\ recorder' = TryStart(ResetState(recorder, Head(browser.loading),
                                       textureRotation, browser.now), fail)
    /\ browser' =
          [browser EXCEPT
              !.loading = Tail(@),
              !.compositeDue = FALSE,
              !.cancelled = IF fail = "none" THEN FALSE ELSE @,
              !.error = IF fail = "none" THEN @ ELSE "start_failed",
              !.orphans = IF fail # "MediaRecorder"
                             /\ recorder.mediaRecorder = "recording"
                          THEN @ + 1 ELSE @]
    /\ t >= uniforms.uTime
    /\ rotationSpeed \in RecordSpeeds
    /\ LET n == IF fail = "none" THEN 2 ELSE 1
       IN  /\ Abs(RenderRotations(textureRotation, rotationSpeed,
                                  isAnimatedContent, n))
                 <= MaxQuarterTurns * HalfPI
           /\ textureRotation' = RenderRotations(textureRotation, rotationSpeed,
                                                 isAnimatedContent, n)
    /\ uniforms' = RenderUniforms(uniforms, textureRotation', isAnimatedContent, t)
    /\ console' = IF fail = "none" THEN console
                  ELSE [level |-> "error", text |-> "Failed to start recording:"]
    /\ lastCall' =
          Call("startRecordingLoaded",
               [failure |-> fail,
                resolved |-> IF fail = "none" THEN "true" ELSE "false",
                onError |-> IF fail = "none" THEN <<>> ELSE <<"start_failed">>])
    /\ UNCHANGED <<clipConfig, rotationSpeed, isAnimatedContent, anchorVars,
                   background, contentLoader>>
    /\ NoDraw

\* RecordingManager.compositeLoop as the animation frames it requested: they
\* run after animate in each display refresh.  While the recording runs,
\* compositeFrame renders the scene in each and the next frame is requested;
\* otherwise each returns.
compositeLoop(t) ==
    /\ browser.compositeDue
    /\ recorder.scheduled > 0
    /\ browser' = [browser EXCEPT !.compositeDue = FALSE]
    /\ lastCall' = Call("compositeLoop", t)
    /\ IF recorder.isRecording
       THEN /\ renders(recorder.scheduled, t)
            /\ recorder' = [recorder EXCEPT !.animationFrameId = TRUE]
       ELSE /\ recorder' = [recorder EXCEPT !.scheduled = 0]
            /\ UNCHANGED console
            /\ NoFrame
    /\ UNCHANGED <<background, contentLoader>>

\* animate of the application, once a display refresh: the scene is
\* rendered, and checkProgress is called while a recording runs.
animate(t, size) ==
    /\ ~(browser.compositeDue /\ recorder.scheduled > 0)
    /\ renders(1, t)
    /\ LET p == IF recorder.isRecording
                THEN Polled(textureRotation', size)
                ELSE [recorder |-> recorder, browser |-> browser, poll |-> NoPoll]
       IN  /\ recorder' = p.recorder
           /\ browser' = [p.browser EXCEPT !.compositeDue = p.recorder.scheduled > 0]
           /\ lastCall' = Call("animate", p.poll)
    /\ UNCHANGED <<background, contentLoader>>

\* RecordingManager.checkProgress called on its own.
checkProgress(size) ==
    /\ LET p == Polled(textureRotation, size)
       IN  /\ recorder' = p.recorder
           /\ browser' = p.browser
           /\ lastCall' = Call("checkProgress", p.poll)
    /\ UNCHANGED <<console, background, contentLoader>>
    /\ NoFrame

\* RecordingManager.stopRecording called on its own.
stopRecording(size) ==
    /\ LET s == StopRecording(recorder, browser.events, size)
       IN  /\ recorder' = s[1]
           /\ browser' = [browser EXCEPT
                             !.events = s[2],
                             !.stopRequested = @ \/ browser.loading # <<>>]
    /\ lastCall' = Call("stopRecording", size)
    /\ UNCHANGED <<console, background, contentLoader>>
    /\ NoFrame

\* RecordingManager.cancelRecording.
cancelRecording(size) ==
    /\ recorder' = [cleanup(recorder) EXCEPT !.chunks = 0,
                                             !.mediaRecorder = "null"]
    /\ browser' = [browser EXCEPT
                      !.events = IF recorder.mediaRecorder = "recording"
                                 THEN MediaStop(@, size) ELSE @,
                      !.cancelled = @ \/ recorder.isRecording,
                      !.stopRequested = @ \/ browser.loading # <<>>]
    /\ lastCall' = Call("cancelRecording", size)
    /\ UNCHANGED <<console, background, contentLoader>>
    /\ NoFrame

\* A MediaRecorder started with start(100) queues the data of a timeslice.
timeslice(size) ==
    /\ recorder.mediaRecorder = "recording" \/ browser.orphans > 0
    /\ recorder.chunks + Len(browser.events) < MaxChunks
    /\ browser' = [browser EXCEPT
                      !.events = Append(@, [type |-> "dataavailable",
                                            size |-> size])]
    /\ lastCall' = Call("timeslice", size)
    /\ UNCHANGED <<recorder, console, background, contentLoader>>
    /\ NoFrame

\* mediaRecorder.ondataavailable, on the first queued event.
ondataavailable ==
    /\ browser.events # <<>>
    /\ Head(browser.events).type = "dataavailable"
    /\ recorder' = [recorder EXCEPT
                       !.chunks = IF Head(browser.events).size > 0
                                  THEN @ + 1 ELSE @]
    /\ browser' = [browser EXCEPT !.events = Tail(@)]
    /\ lastCall' = Call("ondataavailable", Head(browser.events).size)
    /\ UNCHANGED <<console, background, contentLoader>>
    /\ NoFrame

\* RecordingManager.exportVideo: the download and onComplete, or a warning.
exportVideo(br, chunks) ==
    IF chunks = 0 THEN br
    ELSE [br EXCEPT !.downloads = @ + 1, !.completed = @ + 1]

\* mediaRecorder.onstop, on the first queued event: exportVideo.
onstop ==
    /\ browser.events # <<>>
    /\ Head(browser.events).type = "stop"
    /\ browser' = exportVideo([browser EXCEPT !.events = Tail(@)],
                              recorder.chunks)
    /\ console' = IF recorder.chunks = 0
                  THEN [level |-> "warn", text |-> "No recorded data to export"]
                  ELSE console
    /\ lastCall' = Call("onstop", recorder.chunks)
    /\ UNCHANGED <<recorder, background, contentLoader>>
    /\ NoFrame

\* performance.now() moves on by a millisecond.
timePasses ==
    /\ browser.now < MaxNow
    /\ browser' = [browser EXCEPT !.now = @ + 1]
    /\ lastCall' = Call("timePasses", browser.now)
    /\ UNCHANGED <<recorder, console, background, contentLoader>>
    /\ NoFrame

----------------------------------------------------------------------------
(* BackgroundManager *)

\* Bound: setBackgroundFromFile is followed for MaxFiles files.
MaxFiles == 4

\* The files the user picks, and the URLs of the images the site serves.
Files == {"room.png", "stage.jpg", "wall.png"}

NoUrl == [scheme |-> "none", id |-> 0, file |-> ""]

SiteUrls == {[scheme |-> "site", id |-> 0, file |-> "backgrounds/default.png"]}

\* URL.createObjectURL(file): the n-th object URL of the page, "blob:...".
createObjectURL(n, file) == [scheme |-> "blob", id |-> n, file |-> file]

\* currentBackground after construction; no object URL created or revoked.
InitialBackground == [currentBackground |-> NoUrl, created |-> {}, revoked |-> {}]

\* BackgroundManager.setBackground: the manager after it.
SetBackground(bg, url) == [bg EXCEPT !.currentBackground = url]

\* BackgroundManager.setBackgroundFromFile: the manager after it.  The URL
\* tested and revoked is currentBackground as setBackground has just set it.
SetBackgroundFromFile(bg, file) ==
    LET url == createObjectURL(Cardinality(bg.created) + 1, file)
        made == [bg EXCEPT !.created = @ \cup {url}]
        after == SetBackground(made, url)
    IN  IF after.currentBackground # NoUrl
           /\ after.currentBackground.scheme = "blob"
        THEN [after EXCEPT !.revoked = @ \cup {after.currentBackground}]
        ELSE after

setBackground(url) ==
    /\ background' = SetBackground(background, url)
    /\ console' = [level |-> "log", text |-> "Background set to:"]
    /\ lastCall' = Call("setBackground", url)
    /\ UNCHANGED <<recordingVars, contentLoader>>
    /\ NoFrame

setBackgroundFromFile(file) ==
    /\ Cardinality(background.created) < MaxFiles
    /\ background' = SetBackgroundFromFile(background, file)
    /\ console' = [level |-> "log", text |-> "Background set to:"]
    /\ lastCall' = Call("setBackgroundFromFile", file)
    /\ UNCHANGED <<recordingVars, contentLoader>>
    /\ NoFrame

----------------------------------------------------------------------------
(* ContentLoader *)

\* The animations loaded, as the delays of their frames in milliseconds,
\* (f.delay || 10) * 10; one has no frame.
Gifs == {<<>>, <<100>>, <<20, 100>>}

\* The multipliers handed to setSpeedMultiplier.
SpeedMultipliers == {0, NaN, -Scale, Scale \div 2, Scale, 2 * Scale}

\* Readings of performance.now(), in milliseconds.
LoaderTimes == {0, 2, 4, 10, 20, 40}

\* The fields the constructor sets: gifFrames holds the number of frames,
\* currentTexture the kind of the texture, canvasFrame the frame drawn on
\* the canvas last, and now the last reading of performance.now().
InitialContentLoader ==
    [currentTexture |-> "null", isAnimated |-> FALSE, gifFrames |-> 0,
     currentFrame |-> 0, frameDelays |-> <<>>, lastFrameTime |-> 0,
     speedMultiplier |-> Scale, canvasFrame |-> Undefined, now |-> 0]

\* a >= b of JavaScript numbers: false when either is NaN.
JsGeq(a, b) == a # NaN /\ b # NaN /\ a >= b

\* frameDelays[currentFrame] / (speedMultiplier * 5).
AdjustedDelay(delay, multiplier) == JsDiv(Px(delay), JsMul(multiplier, Px(5)))

\* A faulty update that moves to the next frame at every call.
UpdateEveryCall(cl, now) ==
    LET next == IF cl.gifFrames = 0 THEN 0
                ELSE (cl.currentFrame + 1) % cl.gifFrames
    IN  [loader |-> [cl EXCEPT !.currentFrame = next,
                               !.lastFrameTime = now,
                               !.canvasFrame = next],
         returned |-> cl.currentTexture,
         renderGifFrame |-> <<next>>]

\* ContentLoader.update at the clock reading now: the loader after it, what
\* it returns, and the calls of renderGifFrame it makes.
Update(cl, now) ==
    IF ~cl.isAnimated \/ cl.gifFrames = 0 \/ cl.speedMultiplier = 0
    THEN [loader |-> cl, returned |-> "null", renderGifFrame |-> <<>>]
    ELSE LET adjustedDelay == AdjustedDelay(cl.frameDelays[cl.currentFrame + 1],
                                            cl.speedMultiplier)
         IN  IF JsGeq(Px(now - cl.lastFrameTime), adjustedDelay)
             THEN LET next == (cl.currentFrame + 1) % cl.gifFrames
                  IN  [loader |-> [cl EXCEPT !.currentFrame = next,
                                             !.lastFrameTime = now,
                                             !.canvasFrame = next],
                       returned |-> cl.currentTexture,
                       renderGifFrame |-> <<next>>]
             ELSE [loader |-> cl, returned |-> "null", renderGifFrame |-> <<>>]

\* What the operations of the ContentLoader leave alone.
LoaderFrame ==
    /\ UNCHANGED <<recordingVars, background>>
    /\ NoFrame

update(now) ==
    /\ now >= contentLoader.now
    /\ LET u == Update(contentLoader, now)
       IN  /\ contentLoader' = [u.loader EXCEPT !.now = now]
           /\ lastCall' = Call("update", [now |-> now, returned |-> u.returned,
                                          renderGifFrame |-> u.renderGifFrame])
    /\ UNCHANGED console
    /\ LoaderFrame

setSpeedMultiplier(multiplier) ==
    /\ contentLoader' = [contentLoader EXCEPT !.speedMultiplier = multiplier]
    /\ lastCall' = Call("setSpeedMultiplier", multiplier)
    /\ UNCHANGED console
    /\ LoaderFrame

\* ContentLoader.loadGif of a file with the given frame delays, when its
\* data has arrived: with no frame nothing is loaded.
loadGif(delays, now) ==
    /\ now >= contentLoader.now
    /\ IF delays = <<>>
       THEN /\ contentLoader' = [contentLoader EXCEPT !.now = now]
            /\ console' = [level |-> "error", text |-> "No frames found in GIF"]
       ELSE /\ contentLoader' =
                  [contentLoader EXCEPT !.gifFrames = Len(delays),
                                        !.frameDelays = delays,
                                        !.isAnimated = TRUE,
                                        !.currentFrame = 0,
                                        !.lastFrameTime = now,
                                        !.currentTexture = "canvas",
                                        !.canvasFrame = 0,
                                        !.now = now]
            /\ UNCHANGED console
    /\ lastCall' = Call("loadGif", delays)
    /\ LoaderFrame

\* ContentLoader.loadImage, when the image has loaded.
loadImage ==
    /\ contentLoader' = [contentLoader EXCEPT !.currentTexture = "image",
                                              !.isAnimated = FALSE,
                                              !.gifFrames = 0]
    /\ lastCall' = Call("loadImage", "")
    /\ UNCHANGED console
    /\ LoaderFrame

\* ContentLoader.loadFromUrl, when the image has loaded.
loadFromUrl ==
    /\ contentLoader' = [contentLoader EXCEPT !.currentTexture = "image",
                                              !.isAnimated = FALSE]
    /\ lastCall' = Call("loadFromUrl", "")
    /\ UNCHANGED console
    /\ LoaderFrame

----------------------------------------------------------------------------
(* Construction *)

ContainerSizes == {<<1200, 800>>, <<1000, 800>>}

\* The uniforms createMesh declares, before updateClipPlane runs.
DeclaredUniforms ==
    [uTexture |-> "default", uTime |-> 0,
     uLedCountX |-> 120, uLedCountY |-> 60, uGapSize |-> 1000,
     uBrightness |-> 14000, uGlowIntensity |-> 5000,
     uColorQuantization |-> 16, uScanlineIntensity |-> 4000,
     uNoiseIntensity |-> 300,
     uClipPlaneNormal |-> <<0, Scale, 0>>, uClipPlaneOffset |-> 2000,
     uClipEnabled |-> Scale,
     uTextureRotation |-> 0, uRotationTiltZ |-> 0,
     uTextureVScale |-> Scale, uTextureVOffset |-> 0,
     uEffectMode |-> 0, uIsAnimated |-> 0,
     uTextureScale |-> Scale, uTextureUOffset |-> 0,
     uUserTextureVOffset |-> 0]

InitialClipConfig ==
    [enabled |-> TRUE, tiltX |-> 1700, tiltZ |-> -600, offset |-> -3100]

InitialImageConfig ==
    [sphereCenter |-> <<869, 634>>, sphereRadiusRatio |-> 1691]

Init ==
    /\ clipConfig = InitialClipConfig
    /\ uniforms = updateClipPlane(DeclaredUniforms, clipConfig)
    /\ rotationSpeed = BaseSpeed
    /\ textureRotation = 0
    /\ isAnimatedContent = FALSE
    /\ imageConfig = InitialImageConfig
    /\ container \in ContainerSizes
    /\ sphere = updateFromImageCoords(imageConfig, container)
    /\ console = [level |-> "none", text |-> ""]
    /\ frag = NoFragment
    /\ lastCall = Call("constructor", "")
    /\ recorder = InitialRecorder
    /\ browser = InitialBrowser
    /\ background = InitialBackground
    /\ contentLoader = InitialContentLoader

----------------------------------------------------------------------------
(* Inputs and specifications *)

\* Bounds of the inputs: tilt angles are multiples of TiltStep (the SHIFT
\* step of the keyboard, 0.1 rad), offsets multiples of the sphere radius.
MaxTiltSteps == 1
MaxOffsetSteps == 2

TiltStep == 1000

OffsetUnit == Scale

\* Forward tilts of the plane, and sideways tilts either way.
TiltXInputs == {k * TiltStep : k \in 0 .. MaxTiltSteps}

TiltZInputs == {k * TiltStep : k \in -MaxTiltSteps .. MaxTiltSteps}

OffsetInputs == {k * OffsetUnit : k \in -MaxOffsetSteps .. MaxOffsetSteps}

RotationSpeeds == {-2 * BaseSpeed, -BaseSpeed, 0, BaseSpeed, 2 * BaseSpeed}

CenterInputs == {<<750, 500>>}

RadiusRatioInputs == {2500}

\* Readings of the clock: at construction, and later.
Times == {0, 1}

EffectNext ==
    \/ \E n \in EffectNames : setEffect(n)
    \/ \E c \in LedCountInputs : setLedCount(c[1], c[2])
    \/ \E g \in GapInputs : setGapSize(g)
    \/ \E b \in BrightnessInputs : setBrightness(b)
    \/ \E g \in GlowInputs : setGlowIntensity(g)

ClipNext ==
    \/ \E e \in BOOLEAN : setClipEnabled(e)
    \/ \E a \in TiltXInputs : setClipTiltX(a)
    \/ \E a \in TiltZInputs : setClipTiltZ(a)
    \/ \E o \in OffsetInputs : setClipOffset(o)

SceneNext ==
    \/ \E v \in Fragments, t \in Times : render(v, t, MaxTicks)
    \/ \E x \in Textures, a \in BOOLEAN : setContent(x, a)
    \/ \E s \in RotationSpeeds : setRotationSpeed(s)

AnchorNext ==
    \/ \E c \in CenterInputs : setSphereCenter(c[1], c[2])
    \/ \E r \in RadiusRatioInputs : setSphereRadiusRatio(r)
    \/ \E z \in ContainerSizes : onResize(z)

Draw == \E v \in Fragments, t \in Times : render(v, t, MaxShadeTicks)

\* The effect controls alone.
SpecEffect == Init /\ [][EffectNext]_vars

\* The render tick, content changes and the rotation controls.
SpecScene == Init /\ [][SceneNext]_vars

\* setEffect with every name, and frames drawn between the calls.
StyleNext ==
    \/ \E n \in EffectNames : setEffect(n)
    \/ Draw

SpecStyle == Init /\ [][StyleNext]_vars

\* The clip setters, and frames drawn between them.
SpecClip == Init /\ [][ClipNext \/ Draw]_vars

\* The sphere's placement, the clip plane's switch and offset, and frames.
ShadeNext ==
    \/ AnchorNext
    \/ \E e \in BOOLEAN : setClipEnabled(e)
    \/ \E o \in OffsetInputs : setClipOffset(o)
    \/ Draw

SpecShade == Init /\ [][ShadeNext]_vars

\* Content changes, the clip plane's switch and offset, and frames.
ContentNext ==
    \/ \E x \in Textures, a \in BOOLEAN : setContent(x, a)
    \/ \E e \in BOOLEAN : setClipEnabled(e)
    \/ \E o \in OffsetInputs : setClipOffset(o)
    \/ Draw

SpecContent == Init /\ [][ContentNext]_vars

\* The anchor mapping alone, over more anchors and container sizes: wider
\* than the image, of its aspect, taller, and very small.
MapperCenters == {<<869, 634>>, <<750, 500>>, <<0, 0>>, <<1500, 1000>>}

MapperRadiusRatios == {1691, 2500, 5000}

MapperSizes ==
    {<<1200, 800>>, <<1000, 800>>, <<1600, 800>>, <<800, 1200>>, <<3, 2>>}

MapperNext ==
    \/ \E c \in MapperCenters : setSphereCenter(c[1], c[2])
    \/ \E r \in MapperRadiusRatios : setSphereRadiusRatio(r)
    \/ \E z \in MapperSizes : onResize(z)

SpecAnchor == Init /\ [][MapperNext]_vars

\* Rotation speeds at the threshold of canRecord, and away from it.
ThresholdSpeeds == RotationSpeeds \cup {-1, 1}

\* canRecord, between changes of the content and of the rotation speed.
CanRecordNext ==
    \/ \E m \in BOOLEAN : canRecordCalled(m)
    \/ \E s \in ThresholdSpeeds : setRotationSpeed(s)
    \/ \E x \in Textures, a \in BOOLEAN : setContent(x, a)

SpecCanRecord == Init /\ [][CanRecordNext]_vars

\* The anchor mapping over container sizes of a collapsed layout: no
\* height, no width, neither.
ViewportSizes == {<<1200, 800>>, <<1200, 0>>, <<0, 800>>, <<0, 0>>}

ViewportNext ==
    \/ \E c \in MapperCenters : setSphereCenter(c[1], c[2])
    \/ \E r \in MapperRadiusRatios : setSphereRadiusRatio(r)
    \/ \E z \in ViewportSizes : onResize(z)

SpecViewport == Init /\ [][ViewportNext]_vars

\* The texture transform controls, and frames drawn between them.
TextureNext ==
    \/ \E k \in TextureScaleInputs : setTextureScale(k)
    \/ \E o \in TextureUOffsetInputs : setTextureUOffset(o)
    \/ \E o \in UserTextureVOffsetInputs : setUserTextureVOffset(o)
    \/ Draw

SpecTexture == Init /\ [][TextureNext]_vars

\* A display refresh: animate, and compositeLoop after it.
Animate ==
    \E t \in RecordTimes, z \in DataSizes : animate(t, z)

CompositeLoop == \E t \in RecordTimes : compositeLoop(t)

\* startRecording, up to its await and after it, as the export button calls
\* it: with no recording running and no call suspended.
StartRecording ==
    \/ /\ ~recorder.isRecording
       /\ browser.loading = <<>>
       /\ \E d \in Durations, m \in BOOLEAN : startRecording(d, m, MaxRecordings)
    \/ \E t \in RecordTimes, f \in Failures : startRecordingLoaded(t, f)

\* Recordings that are stopped or cancelled, and the MediaRecorder's events.
CancelNext ==
    \/ StartRecording
    \/ \E z \in DataSizes : stopRecording(z)
    \/ \E z \in DataSizes : cancelRecording(z)
    \/ \E z \in DataSizes : timeslice(z)
    \/ ondataavailable
    \/ onstop
    \/ \E s \in RecordSpeeds : setRotationSpeed(s)

SpecCancel == Init /\ [][CancelNext]_vars

\* Recordings in the frame loop, with the rotation and content controls.
FrameNext ==
    \/ StartRecording
    \/ Animate
    \/ CompositeLoop
    \/ \E s \in RecordSpeeds : setRotationSpeed(s)
    \/ \E x \in Textures, a \in BOOLEAN : setContent(x, a)

SpecFrames == Init /\ [][FrameNext]_vars

\* The browser keeps refreshing the display: animate runs in every refresh,
\* and compositeLoop while its animation frame is requested.
SpecFramesFair == SpecFrames /\ WF_vars(Animate) /\ WF_vars(CompositeLoop)

\* The same with the clock, and checkProgress called at any time.
ProgressNext ==
    \/ FrameNext
    \/ \E z \in DataSizes : checkProgress(z)
    \/ timePasses

SpecProgress == Init /\ [][ProgressNext]_vars

\* startRecording called at any time, also while a recording runs or while
\* an earlier call waits for its image, in the frame loop.
RestartNext ==
    \/ \E d \in Durations, m \in BOOLEAN : startRecording(d, m, MaxStarts)
    \/ \E t \in RecordTimes, f \in Failures : startRecordingLoaded(t, f)
    \/ Animate
    \/ CompositeLoop
    \/ \E s \in RecordSpeeds : setRotationSpeed(s)
    \/ \E x \in Textures, a \in BOOLEAN : setContent(x, a)

SpecRestart == Init /\ [][RestartNext]_vars

\* The background controls.
BackgroundNext ==
    \/ \E u \in SiteUrls \cup background.created : setBackground(u)
    \/ \E f \in Files : setBackgroundFromFile(f)

SpecBackground == Init /\ [][BackgroundNext]_vars

\* The content loader: files and URLs loaded, the speed multiplier, and
\* update called at any later reading of the clock.
LoaderNext ==
    \/ \E g \in Gifs, t \in LoaderTimes : loadGif(g, t)
    \/ loadImage
    \/ loadFromUrl
    \/ \E k \in SpeedMultipliers : setSpeedMultiplier(k)
    \/ \E t \in LoaderTimes : update(t)

SpecLoader == Init /\ [][LoaderNext]_vars

\* Every operation of the program.
Next ==
    \/ EffectNext \/ ClipNext \/ SceneNext \/ AnchorNext \/ TextureNext
    \/ CancelNext \/ ProgressNext \/ BackgroundNext
    \/ ViewportNext \/ CanRecordNext \/ StyleNext \/ LoaderNext
    \/ RestartNext

Spec == Init /\ [][Next]_vars

----------------------------------------------------------------------------
(* Properties of the effect controls (SpecEffect) *)

\* The last call was setEffect with a name outside the preset table.
UnknownEffectCalled ==
    lastCall.op = "setEffect" /\ lastCall.arg \notin PresetNames

\* The last call was setEffect with a preset name.
PresetCalled ==
    lastCall.op = "setEffect" /\ lastCall.arg \in PresetNames

\* C1: for every name that is not one of the seven presets, setEffect(name)
\* changes none of the nine effect uniforms, keeps the active preset, and
\* emits a warning.
C1_UnknownEffectIsNoOp ==
    [][UnknownEffectCalled' =>
          /\ \A k \in EffectUniformNames : uniforms'[k] = uniforms[k]
          /\ getCurrentEffect(uniforms') = getCurrentEffect(uniforms)
          /\ console'.level = "warn"]_vars

\* C2: after setEffect with a preset name every effect parameter equals the
\* preset's row, whatever the uniforms held before, and getCurrentEffect
\* returns that name.
C2_PresetSetsRow ==
    PresetCalled =>
        LET row == effectPresets[lastCall.arg] IN
        /\ uniforms.uLedCountX = row.ledCountX
        /\ uniforms.uLedCountY = row.ledCountY
        /\ uniforms.uGapSize = row.gapSize
        /\ uniforms.uBrightness = row.brightness
        /\ uniforms.uGlowIntensity = row.glowIntensity
        /\ uniforms.uColorQuantization = row.colorQuantization
        /\ uniforms.uScanlineIntensity = row.scanlineIntensity
        /\ uniforms.uNoiseIntensity = row.noiseIntensity
        /\ getCurrentEffect(uniforms) = lastCall.arg

\* C2's case: "neon" has just been selected, a preset whose two cell counts
\* differ.
C2_Witness ==
    /\ PresetCalled
    /\ lastCall.arg = "neon"
    /\ getCurrentEffect(uniforms) = "neon"
    /\ uniforms.uLedCountX # uniforms.uLedCountY

----------------------------------------------------------------------------
(* Properties of the render tick (SpecScene) *)

\* A step that is a call of render.
RenderStep == lastCall'.op = "render"

\* C3: a render tick of non-animated content adds rotationSpeed to the angle
\* exactly once and publishes the new angle to uTextureRotation before the
\* draw; a tick of animated content leaves angle and uniform unchanged; and
\* the uniform equals the stored angle throughout.
C3_RenderTick ==
    /\ [](uniforms.uTextureRotation = textureRotation)
    /\ [][RenderStep =>
            IF isAnimatedContent
            THEN /\ textureRotation' = textureRotation
                 /\ uniforms'.uTextureRotation = uniforms.uTextureRotation
            ELSE /\ textureRotation' = textureRotation + rotationSpeed
                 /\ uniforms'.uTextureRotation = textureRotation'
                 /\ frag'.state = "shaded" =>
                      frag'.rotatedUV = rotateTiltedUV(frag'.vary.vUv,
                                                       frag'.rotationAxis,
                                                       textureRotation')]_vars

\* C3's case: a tick of animated content, frozen at an angle that earlier
\* ticks of non-animated content have built up.
C3_Witness ==
    /\ lastCall.op = "render"
    /\ isAnimatedContent
    /\ textureRotation = 2 * BaseSpeed
    /\ uniforms.uTextureRotation = 2 * BaseSpeed

\* C4 as stated: across a render tick of non-animated content the angle never
\* decreases, for every rotationSpeed.
C4_AngleNeverDecreases ==
    [][RenderStep /\ ~isAnimatedContent =>
          textureRotation' >= textureRotation]_vars

\* C4, amended: across a render tick of non-animated content the angle moves
\* with the sign of rotationSpeed: it never decreases when rotationSpeed >= 0
\* and it decreases when rotationSpeed < 0.
C4_AngleFollowsSpeedSign ==
    [][RenderStep /\ ~isAnimatedContent =>
          /\ rotationSpeed >= 0 => textureRotation' >= textureRotation
          /\ rotationSpeed > 0 => textureRotation' > textureRotation
          /\ rotationSpeed < 0 => textureRotation' < textureRotation]_vars

\* C4's case: a tick at a negative speed has taken the angle below zero.
C4_Witness ==
    /\ lastCall.op = "render"
    /\ ~isAnimatedContent
    /\ rotationSpeed < 0
    /\ textureRotation < 0

----------------------------------------------------------------------------
(* Properties of the clipping plane (SpecClip, SpecShade, SpecContent) *)

\* The last call was render, so frag is a fragment of the current state.
Drawn == lastCall.op = "render"

\* C5: after any sequence of clip setters uRotationTiltZ is the negation of
\* clipConfig.tiltZ, and the shader's rotation axis is (sin t, cos t, 0) of
\* that value t.
C5_RotationTiltNegated ==
    /\ uniforms.uRotationTiltZ = 0 - clipConfig.tiltZ
    /\ (Drawn /\ frag.state = "shaded") =>
          frag.rotationAxis = <<Sin(0 - clipConfig.tiltZ),
                                Cos(0 - clipConfig.tiltZ), 0>>

\* C5's case: a fragment shaded after setClipTiltZ has tilted the plane.
C5_Witness ==
    /\ Drawn
    /\ frag.state = "shaded"
    /\ clipConfig.tiltZ = TiltStep
    /\ uniforms.uRotationTiltZ = -TiltStep
    /\ frag.rotationAxis[1] < 0

\* (1 - clamp(offset, -1, 1)) / 2 in the model's fixed point.
VisibleVMaxOf(offset) ==
    (Scale - (IF offset < -Scale THEN -Scale
              ELSE IF offset > Scale THEN Scale ELSE offset)) \div 2

C7_RawPlaneOffset ==
    /\ uniforms.uClipPlaneOffset = clipConfig.offset
    /\ (Drawn /\ clipConfig.enabled) =>
          (frag.state = "discarded" <=>
              Dot(frag.vary.vPosition, uniforms.uClipPlaneNormal)
                  - clipConfig.offset < 0)

\* C7's case: setClipOffset with an offset below -1: the uniform holds it
\* unclamped while the V scale is that of -1.
C7_Witness ==
    /\ lastCall.op = "setClipOffset"
    /\ lastCall.arg < -Scale
    /\ uniforms.uClipPlaneOffset = lastCall.arg
    /\ clipConfig.enabled
    /\ uniforms.uTextureVScale = Scale

\* C8: with clipping enabled a fragment is discarded exactly when
\* dot(worldPosition, normal) - offset < 0, for worldPosition the fragment's
\* position in world space, after the sphere's placement and scale.
C8_WorldSpaceDiscard ==
    (Drawn /\ clipConfig.enabled) =>
        (frag.state = "discarded" <=>
            Dot(frag.vary.vWorldPosition, uniforms.uClipPlaneNormal)
                - uniforms.uClipPlaneOffset < 0)

\* C9: with clipping disabled no fragment is discarded, whatever the tilts,
\* the offset and the sign of the plane distance.
C9_DisabledNeverDiscards ==
    (Drawn /\ ~clipConfig.enabled) => frag.state = "shaded"

\* C9's case: clipping disabled, and a fragment below the plane is shaded.
C9_Witness ==
    /\ Drawn
    /\ ~clipConfig.enabled
    /\ frag.state = "shaded"
    /\ Dot(frag.vary.vPosition, uniforms.uClipPlaneNormal)
          - uniforms.uClipPlaneOffset < 0

\* C10: the V compensation follows the animated flag last set by setContent:
\* a fragment of non-animated content is sampled at
\* (rotatedU, rotatedV * visibleVMax + vOffset), a fragment of animated
\* content at the rotated UV itself, whatever visibleVMax and vOffset are.
C10_VCompensation ==
    /\ uniforms.uIsAnimated = IF isAnimatedContent THEN Scale ELSE 0
    /\ (lastCall.op = "setContent") => isAnimatedContent = lastCall.arg[2]
    /\ (Drawn /\ frag.state = "shaded") =>
          IF isAnimatedContent
          THEN frag.scaledUV = frag.rotatedUV
          ELSE /\ frag.scaledUV[1] = frag.rotatedUV[1]
               /\ frag.scaledUV[2] =
                     RDiv(frag.rotatedUV[2] * uniforms.uTextureVScale, Scale)
                        + uniforms.uTextureVOffset

\* C10's case: a fragment of animated content shaded while the V scale is
\* below 1, at a rotated V the scale would have changed.
C10_Witness ==
    /\ Drawn
    /\ isAnimatedContent
    /\ frag.state = "shaded"
    /\ uniforms.uTextureVScale < Scale
    /\ frag.rotatedUV[2] > 0
    /\ frag.scaledUV = frag.rotatedUV

----------------------------------------------------------------------------
(* Properties of the anchor mapping (SpecAnchor) *)

\* The tolerance 1e-3 of the worked example.
Tolerance == Scale \div 1000

Near(a, b) == Abs(a - b) <= Tolerance

\* The worked example: the default anchor in a 1200 x 800 container.
ExampleAnchor ==
    /\ container = <<1200, 800>>
    /\ imageConfig.sphereCenter = <<869, 634>>
    /\ imageConfig.sphereRadiusRatio = 1691

\* C11 as stated: the example maps to position (0.238, -0.268, 0) and scale
\* 0.2537, each within 1e-3.
C11_ExampleScaleQuarter ==
    ExampleAnchor =>
        /\ Near(sphere.position[1], 2380)
        /\ Near(sphere.position[2], -2680)
        /\ sphere.position[3] = 0
        /\ Near(sphere.scale, 2537)

\* C11, amended: the example maps to position (0.238, -0.268, 0) and scale
\* 0.5073, each within 1e-3.
C11_ExampleScaleHalf ==
    ExampleAnchor =>
        /\ Near(sphere.position[1], 2380)
        /\ Near(sphere.position[2], -2680)
        /\ sphere.position[3] = 0
        /\ Near(sphere.scale, 5073)

\* C11's case: setSphereCenter has set the example's anchor in a container of
\* 1200 x 800.
C11_Witness ==
    /\ ExampleAnchor
    /\ lastCall = Call("setSphereCenter", <<869, 634>>)
    /\ sphere.scale > 0

\* The container has the aspect of the image.
EqualAspect == container[1] * imageHeight = container[2] * imageWidth

\* C12: calculateImageDisplayBounds gives the contain letterbox of the
\* container: the displayed rectangle has the image's aspect, fits into the
\* container, touches it on the limiting dimension and is centred on the
\* other; with equal aspects the displayed width is the container's, and
\* 1200 x 800 gives 1200, 800 and no offsets.
C12_ContainLetterbox ==
    LET b == calculateImageDisplayBounds(container)
        W == container[1] * Scale
        H == container[2] * Scale
    IN  /\ Abs(PxDiv(b.displayedWidth, b.displayedHeight)
                 - PxDiv(imageWidth * Scale, imageHeight * Scale)) <= 1
        /\ b.displayedWidth <= W
        /\ b.displayedHeight <= H
        /\ b.displayedWidth = W \/ b.displayedHeight = H
        /\ b.offsetX = (W - b.displayedWidth) \div 2
        /\ b.offsetY = (H - b.displayedHeight) \div 2
        /\ b.displayedWidth = W => b.offsetX = 0
        /\ b.displayedHeight = H => b.offsetY = 0
        /\ b.offsetX = 0 \/ b.offsetY = 0
        /\ EqualAspect => b.displayedWidth = W /\ b.offsetX = 0 /\ b.offsetY = 0
        /\ container = <<1200, 800>> =>
              /\ b.displayedWidth = 1200 * Scale
              /\ b.displayedHeight = 800 * Scale
              /\ b.offsetX = 0
              /\ b.offsetY = 0

\* C12's case: a resize to a container wider than the image, which is then
\* limited by the height and has margins left and right.
C12_Witness ==
    /\ lastCall = Call("onResize", <<1600, 800>>)
    /\ calculateImageDisplayBounds(container).displayedHeight = 800 * Scale
    /\ calculateImageDisplayBounds(container).offsetX = 200 * Scale

\* C13: after every setSphereCenter, setSphereRadiusRatio and onResize the
\* sphere's position and scale are the mapping of the current anchor and
\* container size, whatever calls came before; and a call that changes
\* neither of them leaves position and scale as they were.
C13_TransformDerived ==
    /\ [](sphere = updateFromImageCoords(imageConfig, container))
    /\ [][(imageConfig' = imageConfig /\ container' = container) =>
             sphere' = sphere]_vars

\* C13's case: onResize has run with a size that changes the mapping, after
\* the anchor was moved.
C13_Witness ==
    /\ lastCall = Call("onResize", <<800, 1200>>)
    /\ imageConfig.sphereCenter = <<0, 0>>
    /\ imageConfig.sphereRadiusRatio = 5000
    /\ sphere = updateFromImageCoords(imageConfig, <<800, 1200>>)
    /\ sphere # updateFromImageCoords(imageConfig, <<1200, 800>>)

----------------------------------------------------------------------------
(* Properties of the texture rotation (SpecClip) *)

\* Two U coordinates within the tolerance of each other, around the seam.
NearOnCircle(a, b) ==
    LET d == (a - b) % Scale IN d <= Tolerance \/ d >= Scale - Tolerance

\* C14: for the rotation axis (0, 1, 0) and every angle a, a UV (u, v) with
\* 0 < v < 1 is rotated to (frac(u + a / 2 pi), v).
C14_NoTiltRotation ==
    (/\ Drawn
     /\ frag.state = "shaded"
     /\ frag.rotationAxis = <<0, Scale, 0>>
     /\ frag.vary.vUv[2] \in 1 .. (Scale - 1)) =>
        /\ NearOnCircle(frag.rotatedUV[1],
                        frag.vary.vUv[1] + RDiv(textureRotation * Scale, 2 * PI))
        /\ Near(frag.rotatedUV[2], frag.vary.vUv[2])

\* The uniforms with the texture transform at its defaults.
DefaultTextureTransform(un) ==
    [un EXCEPT !.uTextureScale = Scale, !.uTextureUOffset = 0,
               !.uUserTextureVOffset = 0]

\* C15: the texture transform is applied to sampling: a fragment drawn with
\* a U offset that is no whole turn is sampled at another UV than it is with
\* the transform at its defaults.
C15_TextureTransformApplied ==
    (/\ Drawn
     /\ frag.state = "shaded"
     /\ uniforms.uTextureUOffset % Scale # 0) =>
        frag.scaledUV #
            FragmentMain(frag.vary, DefaultTextureTransform(uniforms)).scaledUV

----------------------------------------------------------------------------
(* Properties of the recorder (SpecCancel, SpecProgress, SpecFrames) *)

\* C16: once cancelRecording has been called on a running recording, no
\* export happens for that recording, in whatever order the MediaRecorder's
\* pending dataavailable and stop events arrive: no download is made and
\* onComplete is not called.
C16_CancelNeverExports ==
    [][browser.cancelled =>
          /\ browser'.downloads = browser.downloads
          /\ browser'.completed = browser.completed]_vars

\* The step is a checkProgress call, on its own or from animate.
PollStep ==
    /\ lastCall'.op \in {"checkProgress", "animate"}
    /\ lastCall'.arg # NoPoll

\* C17: checkProgress returns -1 exactly when no recording is running, and
\* otherwise a progress within [0, 1] that is also the value handed to
\* onProgress, in both recording modes and for every duration given to
\* startRecording.
C17_ProgressInRange ==
    [][PollStep =>
          IF recorder.isRecording
          THEN /\ lastCall'.arg.returned \in 0 .. Scale
               /\ lastCall'.arg.onProgress = lastCall'.arg.returned
          ELSE lastCall'.arg.returned = -Scale]_vars

\* A rotation-based recording is running.
RotationRecording == recorder.isRecording /\ ~recorder.isTimeBasedRecording

\* C18: with the frame loop running, a rotation-based recording stops on its
\* own, whatever changes of the rotation speed and of the content are made
\* meanwhile, and it stops at a checkProgress poll that finds the angle a
\* full turn from startRotation, at the first such poll and at no other step.
C18_FullTurnThenStop ==
    /\ RotationRecording ~> ~recorder.isRecording
    /\ [][RotationRecording =>
             /\ ~recorder'.isRecording => PollStep
             /\ PollStep =>
                   (~recorder'.isRecording <=>
                       Abs(textureRotation' - recorder.startRotation) >= TwoPI)]_vars

\* The step is an operation of the RecordingManager.
RecorderStep ==
    lastCall'.op \in {"startRecording", "startRecordingLoaded", "compositeLoop",
                      "checkProgress", "stopRecording", "cancelRecording"}

\* C19: the recorder only reads the scene: no operation of the
\* RecordingManager changes the rotation angle, and animate, once a display
\* refresh, advances it by one rotationSpeed step, so that a running
\* recording leaves the angle at one step a refresh.
C19_RecorderOnlyPolls ==
    [][/\ RecorderStep => textureRotation' = textureRotation
       /\ lastCall'.op = "animate" =>
             textureRotation' =
                RenderRotation(textureRotation, rotationSpeed, isAnimatedContent)]_vars

----------------------------------------------------------------------------
(* Properties of the background (SpecBackground) *)

\* C20: after any sequence of setBackground and setBackgroundFromFile calls
\* currentBackground is not a revoked URL, and a setBackgroundFromFile call
\* made while an object URL was the background has revoked that URL.
C20_OldUrlRevoked ==
    /\ [](background.currentBackground \notin background.revoked)
    /\ [][(/\ lastCall'.op = "setBackgroundFromFile"
           /\ background.currentBackground.scheme = "blob")
             => background.currentBackground \in background'.revoked]_vars

----------------------------------------------------------------------------
(* Properties of the anchor mapping in a collapsed container (SpecViewport) *)

\* The step is one of the operations that place the sphere.
AnchorStep ==
    lastCall'.op \in {"onResize", "setSphereCenter", "setSphereRadiusRatio"}

\* C21: a container of width or height 0 is rejected before the anchor
\* mapping: onResize, setSphereCenter and setSphereRadiusRatio then leave
\* the sphere's position and scale as they were.
C21_ZeroViewportRejected ==
    [][(AnchorStep /\ (container'[1] = 0 \/ container'[2] = 0))
          => sphere' = sphere]_vars

----------------------------------------------------------------------------
(* Properties of canRecord and of a refused start (SpecCanRecord, SpecCancel) *)

\* C22: canRecord answers not_supported without MediaRecorder; otherwise
\* time_based for animated content, whatever the rotation speed; otherwise
\* rotation_stopped for a speed below 0.0001 either way; otherwise
\* rotation_based; and it changes no state.
C22_CanRecordDecision ==
    [][lastCall'.op = "canRecord" =>
          LET supported == lastCall'.arg.supported
              result == lastCall'.arg.result
          IN  /\ ~supported =>
                    result = [ok |-> FALSE, reason |-> "not_supported"]
              /\ supported /\ isAnimatedContent =>
                    result = [ok |-> TRUE, mode |-> "time_based"]
              /\ supported /\ ~isAnimatedContent /\ Abs(rotationSpeed) < 1 =>
                    result = [ok |-> FALSE, reason |-> "rotation_stopped"]
              /\ supported /\ ~isAnimatedContent /\ Abs(rotationSpeed) >= 1 =>
                    result = [ok |-> TRUE, mode |-> "rotation_based"]
              /\ UNCHANGED <<uniforms, clipConfig, sceneVars, anchorVars,
                             console, recordingVars, background, contentLoader>>]_vars

\* canRecord has answered time_based for animated content that stands still.
C22_Witness ==
    /\ lastCall.op = "canRecord"
    /\ lastCall.arg.supported
    /\ isAnimatedContent
    /\ rotationSpeed = 0
    /\ lastCall.arg.result = [ok |-> TRUE, mode |-> "time_based"]

----------------------------------------------------------------------------
(* C23 *)

\* C23: a startRecording call that canRecord refuses passes the reason to
\* onError exactly once, resolves to false, and leaves the recorder's fields
\* as they were, with no call left waiting; a call whose try block throws
\* resolves to false, passes 'start_failed' to onError once, and leaves
\* isRecording false and no compositeLoop frame requested.
C23_RefusedOrFailedStart ==
    [][/\ lastCall'.op = "startRecording" =>
             LET check == canRecord(lastCall'.arg.supported, isAnimatedContent,
                                    rotationSpeed)
             IN  ~check.ok =>
                    /\ lastCall'.arg.onError = <<check.reason>>
                    /\ lastCall'.arg.resolved = "false"
                    /\ recorder' = recorder
                    /\ browser'.loading = browser.loading
       /\ lastCall'.op = "startRecordingLoaded" =>
             (lastCall'.arg.failure # "none" =>
                 /\ lastCall'.arg.onError = <<"start_failed">>
                 /\ lastCall'.arg.resolved = "false"
                 /\ ~recorder'.isRecording
                 /\ recorder'.scheduled = 0
                 /\ ~recorder'.animationFrameId)]_vars

\* The try block of a startRecording call has thrown at mediaRecorder.start,
\* and the catch block has run.
C23_Witness ==
    /\ lastCall.op = "startRecordingLoaded"
    /\ lastCall.arg.failure = "start"
    /\ recorder.mediaRecorder = "inactive"
    /\ browser.error = "start_failed"
    /\ console.text = "Failed to start recording:"

----------------------------------------------------------------------------
(* C24 *)

----------------------------------------------------------------------------
(* C25 *)

\* C25: update returns null, draws no frame and leaves currentFrame,
\* lastFrameTime and the texture as they were when the content is not
\* animated, when there are no frames, when the speed multiplier is 0, and
\* when less than the current frame's delay divided by five times the
\* multiplier has passed since the last change of frame.
C25_UpdateSkips ==
    [][lastCall'.op = "update" =>
          LET cl == contentLoader
              skipped == ~cl.isAnimated \/ cl.gifFrames = 0
                            \/ cl.speedMultiplier = 0
              early == /\ ~skipped
                       /\ cl.speedMultiplier > 0
                       /\ (lastCall'.arg.now - cl.lastFrameTime)
                             * cl.speedMultiplier * 5
                          < cl.frameDelays[cl.currentFrame + 1] * Scale
          IN  (skipped \/ early) =>
                 /\ lastCall'.arg.returned = "null"
                 /\ lastCall'.arg.renderGifFrame = <<>>
                 /\ contentLoader'.currentFrame = cl.currentFrame
                 /\ contentLoader'.lastFrameTime = cl.lastFrameTime
                 /\ contentLoader'.currentTexture = cl.currentTexture
                 /\ contentLoader'.canvasFrame = cl.canvasFrame]_vars

\* update was called on the second frame of an animation at half speed,
\* some time after the frame was shown and before its delay ran out.
C25_Witness ==
    /\ lastCall.op = "update"
    /\ lastCall.arg.returned = "null"
    /\ contentLoader.isAnimated
    /\ contentLoader.speedMultiplier = Scale \div 2
    /\ contentLoader.currentFrame = 1
    /\ contentLoader.now > contentLoader.lastFrameTime
    /\ contentLoader.lastFrameTime > 0

----------------------------------------------------------------------------
(* C26, C27 *)

\* The MediaRecorders that are recording: the one this.mediaRecorder refers
\* to, and those it no longer refers to.
RecordingMediaRecorders ==
    browser.orphans + (IF recorder.mediaRecorder = "recording" THEN 1 ELSE 0)

\* C26: at most one recording is active at any time: however startRecording
\* is called, also while a recording runs or while an earlier call waits for
\* the background image, no two MediaRecorders record at once and no two
\* compositeLoop frames are requested at once.
C26_OneRecordingAtATime ==
    /\ RecordingMediaRecorders <= 1
    /\ recorder.scheduled <= 1

\* C27: a stopRecording or cancelRecording call made while startRecording
\* waits for the background image is not lost: from its return until the
\* next startRecording call isRecording stays false and no MediaRecorder is
\* started.
C27_StopWhileLoadingKept ==
    browser.stopRequested =>
        /\ ~recorder.isRecording
        /\ recorder.mediaRecorder # "recording"

====
